---------------------------- MODULE Spec2Model ----------------------------
(***************************************************************************)
(* Car Pics API (backend/app/main.py): the /generate handler, the          *)
(* request-scoped provider client kept in a context variable, the prompt   *)
(* refiner and the style merger.                                           *)
(*                                                                         *)
(* A Python str is a sequence of tokens: one-character strings, and the    *)
(* token "user_prompt", which stands for the eleven characters of the      *)
(* placeholder's field name.  Python's None is the value None below.       *)
(***************************************************************************)
EXTENDS Integers, Sequences, FiniteSets, TLC

VARIABLES
    STYLE_MAP,      \* main.py:46, the styles of prompts.yml: key -> entry
    pc,             \* per request: the handler's position
    req,            \* per request: the form fields of the request
    ctx,            \* per request task: the value of _current_client in that task's context
    client,         \* per request: the handler's local `client`
    token,          \* per request: the handler's local `token` (the value before set)
    refined,        \* per request: the handler's local `refined`
    final_prompt,   \* per request: the handler's local `final_prompt`
    style_ctx,      \* per request: the handler's locals style_key, style_label, style_desc
    raised,         \* per request: the exception in flight inside the try block
    gen_result,     \* per request: the handler's local `gen_result`
    calls,          \* per request: the provider calls made so far, in order
    built,          \* per request: how many times genai.Client(...) was called
    outcome,        \* per request: the response of the handler
    fn_in,          \* a direct call of build_prompt / refine_user_prompt: its arguments
    fn_out          \* ... and what it returned

vars == <<STYLE_MAP, pc, req, ctx, client, token, refined, final_prompt,
          style_ctx, raised, gen_result, calls, built, outcome, fn_in, fn_out>>

reqVars == <<pc, req, ctx, client, token, refined, final_prompt,
             style_ctx, raised, gen_result, calls, built, outcome>>

-----------------------------------------------------------------------------
(* Python values *)

\* None, as a value that compares with strings (no string holds this token)
None == <<"<None>">>

\* a dict key that is absent (dict.get without a default then gives None)
Missing == <<"<Missing>">>

\* the characters str.strip() removes
Whitespace == {" ", "\n"}

\* bool(s) of an Optional[str]
Truthy(s) == s # None /\ s # <<>>

\* a or b
Or(a, b) == IF Truthy(a) THEN a ELSE b

RECURSIVE LStrip(_)
LStrip(s) ==
    IF s # <<>> /\ Head(s) \in Whitespace THEN LStrip(Tail(s)) ELSE s

RECURSIVE RStrip(_)
RStrip(s) ==
    IF s # <<>> /\ s[Len(s)] \in Whitespace
    THEN RStrip(SubSeq(s, 1, Len(s) - 1))
    ELSE s

\* str.strip()
Strip(s) == RStrip(LStrip(s))

\* needle in hay
Contains(hay, needle) ==
    \E i \in 0..(Len(hay) - Len(needle)) :
        SubSeq(hay, i + 1, i + Len(needle)) = needle

\* s.startswith(p)
StartsWith(s, p) == Len(s) >= Len(p) /\ SubSeq(s, 1, Len(p)) = p

\* "".join(xs)
RECURSIVE Join(_)
Join(xs) == IF xs = <<>> THEN <<>> ELSE Head(xs) \o Join(Tail(xs))

\* all strings over alphabet A of length at most n
RECURSIVE StringsUpTo(_, _)
StringsUpTo(A, n) ==
    IF n = 0 THEN {<<>>}
    ELSE LET S == StringsUpTo(A, n - 1)
         IN  S \cup {Append(s, c) : s \in {t \in S : Len(t) = n - 1}, c \in A}

-----------------------------------------------------------------------------
(* str.format(user_prompt=value) *)

FormatError == [ok |-> FALSE, val |-> <<>>]

\* the index of the first "}" at or after i, 0 if a "{" or the end comes first
RECURSIVE FieldEnd(_, _)
FieldEnd(t, i) ==
    IF i > Len(t) THEN 0
    ELSE IF t[i] = "}" THEN i
    ELSE IF t[i] = "{" THEN 0
    ELSE FieldEnd(t, i + 1)

\* template.format(user_prompt=value) from position i on, acc the output so far
RECURSIVE FormatFrom(_, _, _, _)
FormatFrom(t, i, value, acc) ==
    IF i > Len(t) THEN [ok |-> TRUE, val |-> acc]
    ELSE IF t[i] = "{" THEN
        IF i < Len(t) /\ t[i + 1] = "{"
        THEN FormatFrom(t, i + 2, value, Append(acc, "{"))
        ELSE LET e == FieldEnd(t, i + 1)
             IN  IF e = 0 THEN FormatError                      \* ValueError
                 ELSE IF SubSeq(t, i + 1, e - 1) = <<"user_prompt">>
                 THEN FormatFrom(t, e + 1, value, acc \o value)
                 ELSE FormatError                               \* KeyError, IndexError
    ELSE IF t[i] = "}" THEN
        IF i < Len(t) /\ t[i + 1] = "}"
        THEN FormatFrom(t, i + 2, value, Append(acc, "}"))
        ELSE FormatError                                        \* ValueError
    ELSE FormatFrom(t, i + 1, value, Append(acc, t[i]))

Format(t, value) == FormatFrom(t, 1, value, <<>>)

-----------------------------------------------------------------------------
(* the style map of prompts.yml *)

\* a style whose YAML value is null
NullEntry == [kind |-> "null", label |-> Missing, template |-> Missing]

\* a style whose YAML value is a mapping; Missing marks a key it does not have
DictEntry(label, template) == [kind |-> "dict", label |-> label, template |-> template]

\* {}
EmptyDict == DictEntry(Missing, Missing)

\* bool(entry): None and {} are falsy
TruthyEntry(e) == e.kind = "dict" /\ e # EmptyDict

\* d.get(field), d a dict
DictGet(d, field) == IF d[field] = Missing THEN None ELSE d[field]

\* m.get(k, default)
MapGet(m, k, default) == IF k \in DOMAIN m THEN m[k] ELSE default

\* key = (style_key or "none").strip()
StyleKey(style) == Strip(Or(style, <<"none">>))

\* the fallback of build_prompt: f"{template}\n\n{user_prompt}".strip()
TwoLines(template, user_prompt) == Strip(template \o <<"\n", "\n">> \o user_prompt)

\* build_prompt as it would be without the strip() of line 77
build_prompt_unstripped(user_prompt, style_key) ==
    LET key   == StyleKey(style_key)
        style == MapGet(STYLE_MAP, key, NullEntry)
    IN  IF ~TruthyEntry(style) THEN user_prompt
        ELSE LET template == Strip(Or(DictGet(style, "template"),
                                      <<"{", "user_prompt", "}">>))
                 f == Format(template, Strip(user_prompt))
             IN  IF f.ok THEN f.val ELSE TwoLines(template, user_prompt)

\* build_prompt(user_prompt, style_key), reading STYLE_MAP
build_prompt(user_prompt, style_key) ==
    LET key   == StyleKey(style_key)
        style == MapGet(STYLE_MAP, key, NullEntry)
    IN  IF ~TruthyEntry(style) THEN Strip(user_prompt)
        ELSE LET template == Strip(Or(DictGet(style, "template"),
                                      <<"{", "user_prompt", "}">>))
                 f == Format(template, Strip(user_prompt))
             IN  IF f.ok THEN f.val ELSE TwoLines(template, user_prompt)

\* the style context of generate: style_obj.get(...) raises on a null entry
ResolveStyle(style) ==
    LET style_key == StyleKey(style)
        style_obj == MapGet(STYLE_MAP, style_key, EmptyDict)
    IN  IF style_obj.kind = "null"
        THEN [ok |-> FALSE, key |-> style_key, label |-> None, desc |-> None]
        ELSE [ok    |-> TRUE,
              key   |-> style_key,
              label |-> IF style_obj.label = Missing THEN style_key
                        ELSE style_obj.label,
              desc  |-> Strip(Or(DictGet(style_obj, "template"), <<>>))]

-----------------------------------------------------------------------------
(* the text model's answer and refine_user_prompt *)

\* reading resp.text raises
Raises == <<"<Raises>">>

\* an answer of client.models.generate_content:
\*   fails: the call raised;  text: resp.text (None, Raises or a str);
\*   cand: "parts" when resp.candidates[0].content.parts can be read, else why not;
\*   parts: the text of each part of that candidate (None for a part without text)
Answer(fails, text, cand, parts) ==
    [fails |-> fails, text |-> text, cand |-> cand, parts |-> parts]

CallFailed == Answer(TRUE, None, "none", <<>>)

\* lines 137-153: the refined text taken from an answer
ExtractRefined(resp, user_prompt) ==
    LET r0 == IF resp.text = Raises THEN <<>> ELSE Or(resp.text, <<>>)
        r1 == IF r0 # <<>> THEN r0
              ELSE IF resp.cand # "parts" THEN Strip(user_prompt)
              ELSE Join(SelectSeq(resp.parts, Truthy))
    IN  Strip(Or(r1, user_prompt))

\* the retry as it would be outside the except clause
NeedsRetryAlways(first) == TRUE

\* lines 124-135: the second generate_content call is made in the except clause
NeedsRetry(first) == first.fails

\* refine_user_prompt, given the answers of the thinking call and of the retry
refine_user_prompt(user_prompt, first, second) ==
    IF ~NeedsRetry(first)
    THEN [raised |-> FALSE, val |-> ExtractRefined(first, user_prompt)]
    ELSE IF ~second.fails
    THEN [raised |-> FALSE, val |-> ExtractRefined(second, user_prompt)]
    ELSE [raised |-> TRUE, val |-> <<>>]

-----------------------------------------------------------------------------
(* the image model's stream and generate_image_and_text *)

\* one streamed chunk, as lines 170-179 read it: kind "text" (a first part with
\* text), "image" (a first part with inline data; mime None when unset) or
\* "other" (no candidate, no content, no parts, or a part with neither)
Chunk(kind, text, mime) == [kind |-> kind, text |-> text, mime |-> mime]

RECURSIVE TextOf(_)
TextOf(stream) ==
    IF stream = <<>> THEN <<>>
    ELSE (IF Head(stream).kind = "text" THEN Head(stream).text ELSE <<>>)
         \o TextOf(Tail(stream))

RECURSIVE ImagesOf(_)
ImagesOf(stream) ==
    IF stream = <<>> THEN <<>>
    ELSE (IF Head(stream).kind = "image"
          THEN <<Or(Head(stream).mime, <<"image/", "png">>)>>
          ELSE <<>>)
         \o ImagesOf(Tail(stream))

\* generate_image_and_text: the text, stripped, and the images' mime types in order
generate_image_and_text(stream) ==
    [text |-> Strip(TextOf(stream)), images |-> ImagesOf(stream)]

-----------------------------------------------------------------------------
(* exceptions and responses *)

NoExc == [kind |-> "none", status |-> 0, detail |-> ""]

HTTPException(status, detail) == [kind |-> "http", status |-> status, detail |-> detail]

\* any exception that is not an HTTPException
Error(detail) == [kind |-> "error", status |-> 0, detail |-> detail]

NoBody == [text |-> <<>>, images |-> <<>>]

Pending == [status |-> 0, detail |-> "", body |-> NoBody]

\* the response FastAPI sends for an HTTPException leaving the handler
ErrorResponse(exc) == [status |-> exc.status, detail |-> exc.detail, body |-> NoBody]

\* the response for a returned dict
OkResponse(body) == [status |-> 200, detail |-> "", body |-> body]

\* the except clauses as they would be if line 255 raised a 400
ExceptClausesAll400(exc) ==
    IF exc.kind = "http" THEN exc ELSE HTTPException(400, "Generation failed")

\* lines 252-255: what leaves the try block for an exception raised in it
ExceptClauses(exc) ==
    IF exc.kind = "http" THEN exc ELSE HTTPException(500, "Generation failed")

-----------------------------------------------------------------------------
(* the request context: contextvars gives every request task its own context *)

Requests == {"r1", "r2"}

\* the ContextVar's default, None
NoClient == [id |-> "none", api_key |-> <<>>]

\* `token` before _current_client.set
NoToken == [id |-> "unset", api_key |-> <<>>]

\* genai.Client(api_key=api_key.strip()), built by request r
Client(r, api_key) == [id |-> r, api_key |-> Strip(api_key)]

\* _current_client.get() in the task of request r
CtxGet(c, r) == c[r]

\* _get_client() in the task of request r: raises when no client is set
_get_client(c, r) == [raised |-> CtxGet(c, r) = NoClient, cli |-> CtxGet(c, r)]

\* set() as it would be on a module-level variable that all tasks share
CtxSetShared(c, r, v) == [q \in DOMAIN c |-> v]

\* _current_client.set(v) in the task of request r: only that task's context changes
CtxSet(c, r, v) == [c EXCEPT ![r] = v]

\* _current_client.reset(token) in the task of request r
CtxReset(c, r, tok) == [c EXCEPT ![r] = tok]

\* the reset as it would be after the try block instead of in a finally clause
FinallyOnSuccessOnly(c, r, tok, exc) == IF exc = NoExc THEN CtxReset(c, r, tok) ELSE c

\* the finally clause, lines 256-258: runs whatever exception exc is in flight
Finally(c, r, tok, exc) == CtxReset(c, r, tok)

\* the check as it would be without strip()
IsBlankNoStrip(s) == ~Truthy(s)

\* lines 194 and 197: not s or not s.strip()
IsBlank(s) == ~Truthy(s) \/ ~Truthy(Strip(s))

-----------------------------------------------------------------------------
(* the requests the model is run on *)

MAX_IMAGE_BYTES == 7 * 1024 * 1024

NoImage == [present |-> FALSE, ctype |-> None, size |-> 0]

\* an UploadFile: its content_type (None when the part declares none) and len(data)
Image(ctype, size) == [present |-> TRUE, ctype |-> ctype, size |-> size]

Request(api_key, prompt, style, image) ==
    [api_key |-> api_key, prompt |-> prompt, style |-> style, image |-> image]

\* the credential of request r, sent with a leading blank
KeyOf(r) == <<" ", "k", r>>

GoodPrompt == <<"a", " ">>

Keys(r) == {<<>>, <<" ">>, KeyOf(r)}

Prompts == {<<>>, <<" ", "\n">>, GoodPrompt}

Styles == {<<"none">>, <<>>, <<"cine", " ">>, <<"null">>, <<"bare">>, <<"zzz">>}

Png == <<"image/", "png">>

Images ==
    {NoImage, Image(None, 1), Image(<<"text/", "plain">>, 1),
     Image(<<"text/", "plain">>, MAX_IMAGE_BYTES + 1)}
    \cup {Image(Png, n) : n \in {0, 1, MAX_IMAGE_BYTES, MAX_IMAGE_BYTES + 1}}

\* blank credentials and prompts; every style; every image
RequestsOf(r) ==
    {Request(k, p, <<"none">>, NoImage) : k \in Keys(r), p \in Prompts}
    \cup {Request(KeyOf(r), GoodPrompt, s, NoImage) : s \in Styles}
    \cup {Request(KeyOf(r), GoodPrompt, <<"none">>, i) : i \in Images}
    \cup {Request(<<>>, GoodPrompt, <<"none">>, Image(<<"text/", "plain">>, 1)),
          Request(KeyOf(r), GoodPrompt, <<"cine", " ">>, Image(Png, 1))}

\* prompts.yml with a full style, a null style, an empty style and one without label
StyleFixture ==
    (<<"cine">> :> DictEntry(<<"Cinematic">>, <<"T", " ", "{", "user_prompt", "}", "\n">>))
    @@ (<<"null">> :> NullEntry)
    @@ (<<"bare">> :> EmptyDict)

\* what the text model may answer
TextAnswers ==
    {CallFailed,
     Answer(FALSE, <<"r", " ">>, "parts", <<>>),
     Answer(FALSE, None, "none", <<>>)}

\* what the image model may do: raise, or stream chunks
GenOutcomes ==
    {[fails |-> TRUE, stream |-> <<>>],
     [fails |-> FALSE,
      stream |-> <<Chunk("text", <<"t", " ">>, None), Chunk("other", <<>>, None),
                   Chunk("image", <<>>, None)>>]}

\* an entry of the log of provider calls
Call(kind, cli, fails) == [kind |-> kind, client |-> cli, fails |-> fails]

NoCall == [fn |-> "none", user_prompt |-> <<>>, style_key |-> <<>>,
           first |-> CallFailed, second |-> CallFailed]

NoResult == [done |-> FALSE, raised |-> FALSE, val |-> <<>>]

NoStyle == [ok |-> FALSE, key |-> None, label |-> None, desc |-> None]

-----------------------------------------------------------------------------
(* generate: the /generate handler, one action per step *)

Init ==
    /\ STYLE_MAP = StyleFixture
    /\ req \in [Requests -> UNION {RequestsOf(r) : r \in Requests}]
    /\ \A r \in Requests : req[r] \in RequestsOf(r)
    /\ pc = [r \in Requests |-> "validate"]
    /\ ctx = [r \in Requests |-> NoClient]
    /\ client = [r \in Requests |-> NoClient]
    /\ token = [r \in Requests |-> NoToken]
    /\ refined = [r \in Requests |-> None]
    /\ final_prompt = [r \in Requests |-> None]
    /\ style_ctx = [r \in Requests |-> NoStyle]
    /\ raised = [r \in Requests |-> NoExc]
    /\ gen_result = [r \in Requests |-> NoBody]
    /\ calls = [r \in Requests |-> <<>>]
    /\ built = [r \in Requests |-> 0]
    /\ outcome = [r \in Requests |-> Pending]
    /\ fn_in = NoCall
    /\ fn_out = NoResult

\* the handler of r ends with exception exc leaving it, outside the try block
Reject(r, exc) ==
    /\ outcome' = [outcome EXCEPT ![r] = ErrorResponse(exc)]
    /\ pc' = [pc EXCEPT ![r] = "done"]

\* exc is raised inside the try block of r
Raise(r, exc) ==
    /\ raised' = [raised EXCEPT ![r] = exc]
    /\ pc' = [pc EXCEPT ![r] = "finally"]

\* lines 193-198
Validate(r) ==
    /\ pc[r] = "validate"
    /\ IF IsBlank(req[r].api_key)
       THEN Reject(r, HTTPException(400, "api_key is required"))
       ELSE IF IsBlank(req[r].prompt)
       THEN Reject(r, HTTPException(400, "prompt is required"))
       ELSE pc' = [pc EXCEPT ![r] = "auth"] /\ UNCHANGED outcome
    /\ UNCHANGED <<STYLE_MAP, req, ctx, client, token, refined, final_prompt,
                   style_ctx, raised, gen_result, calls, built, fn_in, fn_out>>

\* lines 200-204: genai.Client(...) returns a client or raises
AuthInit(r) ==
    /\ pc[r] = "auth"
    /\ built' = [built EXCEPT ![r] = @ + 1]
    /\ \E ok \in BOOLEAN :
        IF ok
        THEN /\ client' = [client EXCEPT ![r] = Client(r, req[r].api_key)]
             /\ pc' = [pc EXCEPT ![r] = "bind"]
             /\ UNCHANGED outcome
        ELSE /\ Reject(r, HTTPException(400, "Invalid api_key provided"))
             /\ UNCHANGED client
    /\ UNCHANGED <<STYLE_MAP, req, ctx, token, refined, final_prompt,
                   style_ctx, raised, gen_result, calls, fn_in, fn_out>>

\* line 207
ContextBind(r) ==
    /\ pc[r] = "bind"
    /\ token' = [token EXCEPT ![r] = CtxGet(ctx, r)]
    /\ ctx' = CtxSet(ctx, r, client[r])
    /\ pc' = [pc EXCEPT ![r] = "style"]
    /\ UNCHANGED <<STYLE_MAP, req, client, refined, final_prompt, style_ctx,
                   raised, gen_result, calls, built, outcome, fn_in, fn_out>>

\* lines 209-213
StyleContext(r) ==
    /\ pc[r] = "style"
    /\ LET s == ResolveStyle(req[r].style)
       IN  /\ style_ctx' = [style_ctx EXCEPT ![r] = s]
           /\ IF s.ok
              THEN pc' = [pc EXCEPT ![r] = "refine"] /\ UNCHANGED raised
              ELSE Raise(r, Error("AttributeError"))
    /\ UNCHANGED <<STYLE_MAP, req, ctx, client, token, refined, final_prompt,
                   gen_result, calls, built, outcome, fn_in, fn_out>>

\* lines 217 and 123-132: _get_client, then the call with the thinking config
RefineThinking(r) ==
    /\ pc[r] = "refine"
    /\ LET got == _get_client(ctx, r)
           cli == got.cli
       IN  IF got.raised
           THEN Raise(r, Error("RuntimeError")) /\ UNCHANGED <<calls, refined>>
           ELSE \E ans \in TextAnswers :
                /\ calls' = [calls EXCEPT ![r] =
                                Append(@, Call("text_thinking", cli, ans.fails))]
                /\ IF NeedsRetry(ans)
                   THEN pc' = [pc EXCEPT ![r] = "retry"] /\ UNCHANGED refined
                   ELSE /\ refined' = [refined EXCEPT ![r] =
                                          ExtractRefined(ans, req[r].prompt)]
                        /\ pc' = [pc EXCEPT ![r] = "merge"]
                /\ UNCHANGED raised
    /\ UNCHANGED <<STYLE_MAP, req, ctx, client, token, final_prompt, style_ctx,
                   gen_result, built, outcome, fn_in, fn_out>>

\* lines 133-153: the call without the thinking config, on the client of line 123
RefineRetry(r) ==
    /\ pc[r] = "retry"
    /\ \E ans \in TextAnswers :
        /\ calls' = [calls EXCEPT ![r] =
                        Append(@, Call("text_plain", calls[r][1].client, ans.fails))]
        /\ IF ans.fails
           THEN Raise(r, Error("generate_content")) /\ UNCHANGED refined
           ELSE /\ refined' = [refined EXCEPT ![r] =
                                  ExtractRefined(ans, req[r].prompt)]
                /\ pc' = [pc EXCEPT ![r] = "merge"]
                /\ UNCHANGED raised
    /\ UNCHANGED <<STYLE_MAP, req, ctx, client, token, final_prompt, style_ctx,
                   gen_result, built, outcome, fn_in, fn_out>>

\* line 227
Merge(r) ==
    /\ pc[r] = "merge"
    /\ final_prompt' = [final_prompt EXCEPT ![r] =
                           build_prompt(refined[r], style_ctx[r].key)]
    /\ pc' = [pc EXCEPT ![r] = "parts"]
    /\ UNCHANGED <<STYLE_MAP, req, ctx, client, token, refined, style_ctx,
                   raised, gen_result, calls, built, outcome, fn_in, fn_out>>

\* lines 230-234: the declared type of the upload, up to `await image.read()`
CheckImageType(r) ==
    /\ pc[r] = "parts"
    /\ LET image == req[r].image
       IN  IF ~image.present
           THEN pc' = [pc EXCEPT ![r] = "generate"] /\ UNCHANGED raised
           ELSE IF ~StartsWith(Or(image.ctype, <<>>), <<"image/">>)
           THEN Raise(r, HTTPException(400, "image must be of type image/*"))
           ELSE pc' = [pc EXCEPT ![r] = "read"] /\ UNCHANGED raised
    /\ UNCHANGED <<STYLE_MAP, req, ctx, client, token, refined, final_prompt,
                   style_ctx, gen_result, calls, built, outcome, fn_in, fn_out>>

\* lines 235-241: the handler resumes with the bytes of the upload
ReadImage(r) ==
    /\ pc[r] = "read"
    /\ LET size == req[r].image.size
       IN  IF size = 0
           THEN Raise(r, HTTPException(400, "image file is empty"))
           ELSE IF size > MAX_IMAGE_BYTES
           THEN Raise(r, HTTPException(400, "image too large (>7MB)"))
           ELSE pc' = [pc EXCEPT ![r] = "generate"] /\ UNCHANGED raised
    /\ UNCHANGED <<STYLE_MAP, req, ctx, client, token, refined, final_prompt,
                   style_ctx, gen_result, calls, built, outcome, fn_in, fn_out>>

\* lines 243-250 and 161-181: _get_client, then the streamed call
Generate(r) ==
    /\ pc[r] = "generate"
    /\ LET got == _get_client(ctx, r)
           cli == got.cli
       IN  IF got.raised
           THEN Raise(r, Error("RuntimeError")) /\ UNCHANGED <<calls, gen_result>>
           ELSE \E g \in GenOutcomes :
                /\ calls' = [calls EXCEPT ![r] = Append(@, Call("image", cli, g.fails))]
                /\ IF g.fails
                   THEN Raise(r, Error("generate_content_stream"))
                        /\ UNCHANGED gen_result
                   ELSE /\ gen_result' = [gen_result EXCEPT ![r] =
                                             generate_image_and_text(g.stream)]
                        /\ pc' = [pc EXCEPT ![r] = "finally"]
                        /\ UNCHANGED raised
    /\ UNCHANGED <<STYLE_MAP, req, ctx, client, token, refined, final_prompt,
                   style_ctx, built, outcome, fn_in, fn_out>>

\* lines 247-258: the return or the except clauses, and the finally clause
Exit(r) ==
    /\ pc[r] = "finally"
    /\ ctx' = Finally(ctx, r, token[r], raised[r])
    /\ outcome' = [outcome EXCEPT ![r] =
                      IF raised[r] = NoExc THEN OkResponse(gen_result[r])
                      ELSE ErrorResponse(ExceptClauses(raised[r]))]
    /\ pc' = [pc EXCEPT ![r] = "done"]
    /\ UNCHANGED <<STYLE_MAP, req, client, token, refined, final_prompt, style_ctx,
                   raised, gen_result, calls, built, fn_in, fn_out>>

Next ==
    \E r \in Requests :
        \/ Validate(r)
        \/ AuthInit(r)
        \/ ContextBind(r)
        \/ StyleContext(r)
        \/ RefineThinking(r)
        \/ RefineRetry(r)
        \/ Merge(r)
        \/ CheckImageType(r)
        \/ ReadImage(r)
        \/ Generate(r)
        \/ Exit(r)

Spec == Init /\ [][Next]_vars

-----------------------------------------------------------------------------
(* build_prompt and refine_user_prompt called directly, on bounded inputs *)

MaxTextLen == 3

MaxTemplateLen == 3

Texts == StringsUpTo({" ", "a", "{"}, MaxTextLen)

Templates == StringsUpTo({" ", "T", "{", "}", "user_prompt"}, MaxTemplateLen)

\* style maps of one style (or none): null, empty, without template, with each template
FnStyleMaps ==
    {<<>>, <<"none">> :> DictEntry(<<"L">>, <<"T", "{", "user_prompt", "}">>)}
    \cup {<<"cine">> :> e :
            e \in {NullEntry, EmptyDict, DictEntry(<<"L">>, Missing),
                   DictEntry(<<"L">>, None)}}
    \cup {<<"cine">> :> DictEntry(<<"L">>, t) : t \in Templates}

FnStyleKeys == {None, <<>>, <<"none">>, <<"cine">>, <<" ", "cine">>, <<"zzz">>}

FnParts == {<<>>, <<None>>, <<(<<" ">>)>>, <<(<<"r">>), None, (<<" ">>)>>}

FnAnswers ==
    {Answer(FALSE, t, "none", <<>>) : t \in {None, Raises, <<>>, <<" ">>, <<"r">>}}
    \cup {Answer(FALSE, t, "parts", p) :
            t \in {None, Raises, <<>>, <<" ">>, <<"r">>}, p \in FnParts}

BuildCall(user_prompt, style_key) ==
    [fn |-> "build_prompt", user_prompt |-> user_prompt, style_key |-> style_key,
     first |-> CallFailed, second |-> CallFailed]

RefineCall(user_prompt, first, second) ==
    [fn |-> "refine_user_prompt", user_prompt |-> user_prompt, style_key |-> <<>>,
     first |-> first, second |-> second]

InitFn ==
    /\ \/ /\ STYLE_MAP \in FnStyleMaps
          /\ fn_in \in {BuildCall(t, k) : t \in Texts, k \in FnStyleKeys}
       \/ /\ STYLE_MAP = StyleFixture
          /\ fn_in \in {RefineCall(t, a, CallFailed) : t \in Texts, a \in FnAnswers}
                       \cup {RefineCall(t, CallFailed, a) :
                               t \in Texts, a \in FnAnswers \cup {CallFailed}}
    /\ fn_out = NoResult
    /\ req = [r \in Requests |-> Request(<<>>, <<>>, <<>>, NoImage)]
    /\ pc = [r \in Requests |-> "idle"]
    /\ ctx = [r \in Requests |-> NoClient]
    /\ client = [r \in Requests |-> NoClient]
    /\ token = [r \in Requests |-> NoToken]
    /\ refined = [r \in Requests |-> None]
    /\ final_prompt = [r \in Requests |-> None]
    /\ style_ctx = [r \in Requests |-> NoStyle]
    /\ raised = [r \in Requests |-> NoExc]
    /\ gen_result = [r \in Requests |-> NoBody]
    /\ calls = [r \in Requests |-> <<>>]
    /\ built = [r \in Requests |-> 0]
    /\ outcome = [r \in Requests |-> Pending]

CallBuildPrompt ==
    /\ fn_in.fn = "build_prompt"
    /\ ~fn_out.done
    /\ fn_out' = [done |-> TRUE, raised |-> FALSE,
                  val |-> build_prompt(fn_in.user_prompt, fn_in.style_key)]
    /\ UNCHANGED <<STYLE_MAP, fn_in, reqVars>>

CallRefine ==
    /\ fn_in.fn = "refine_user_prompt"
    /\ ~fn_out.done
    /\ LET res == refine_user_prompt(fn_in.user_prompt, fn_in.first, fn_in.second)
       IN  fn_out' = [done |-> TRUE, raised |-> res.raised, val |-> res.val]
    /\ UNCHANGED <<STYLE_MAP, fn_in, reqVars>>

NextFn == CallBuildPrompt \/ CallRefine

SpecFn == InitFn /\ [][NextFn]_vars

-----------------------------------------------------------------------------
(* what the claims are stated with *)

\* s is empty or holds only whitespace
AllBlank(s) == \A i \in 1..Len(s) : s[i] \in Whitespace

\* v is s without its leading and trailing whitespace
IsTrimOf(v, s) ==
    /\ \E i \in 0..Len(s) : \E j \in i..Len(s) :
          /\ v = SubSeq(s, i + 1, j)
          /\ AllBlank(SubSeq(s, 1, i))
          /\ AllBlank(SubSeq(s, j + 1, Len(s)))
    /\ v # <<>> => v[1] \notin Whitespace /\ v[Len(v)] \notin Whitespace

\* the contiguous pieces of s
Pieces(s) == {SubSeq(s, i + 1, j) : i \in 0..Len(s), j \in 0..Len(s)}

\* the upload is present and is not an image, or is larger than 7 MiB
InvalidImage(image) ==
    /\ image.present
    /\ \/ image.ctype # None /\ (Len(image.ctype) = 0 \/ image.ctype[1] # "image/")
       \/ image.size > 7 * 1024 * 1024

\* request r made a call of this kind that raised
CallRaised(r, kind) ==
    \E i \in 1..Len(calls[r]) : calls[r][i].kind = kind /\ calls[r][i].fails

Other(r) == CHOOSE q \in Requests : q # r

-----------------------------------------------------------------------------
(* C1 *)

\* C1: with two requests of different credentials running concurrently, every
\* provider call a request makes (in refine_user_prompt or in
\* generate_image_and_text) is made on the client that same request built
\* from its own credential, under every interleaving.
C1_OwnClientOnly ==
    \A r \in Requests : \A i \in 1..Len(calls[r]) :
        /\ calls[r][i].client = client[r]
        /\ calls[r][i].client.id = r
        /\ IsTrimOf(calls[r][i].client.api_key, req[r].api_key)

\* both requests are bound at once, with different credentials, and each has
\* called the text model and the image model
C1_Witness ==
    /\ \A r \in Requests :
          /\ pc[r] = "finally"
          /\ ctx[r] # NoClient
          /\ Len(calls[r]) >= 2
          /\ calls[r][Len(calls[r])].kind = "image"
    /\ ctx["r1"].api_key # ctx["r2"].api_key

(* C2 *)

\* C2: a request that bound a client into the context has released it when it
\* ends, on every exit path (success, 400 raised after binding, 500): the
\* context then holds the value it held before the binding, which is no client.
C2_ReleasedOnEveryExit ==
    \A r \in Requests :
        (pc[r] = "done" /\ token[r] # NoToken) =>
            /\ ctx[r] = token[r]
            /\ ctx[r] = NoClient

\* one request ended with a 400 raised after binding, the other with a 500
C2_Witness ==
    \E r \in Requests :
        /\ pc[r] = "done" /\ token[r] # NoToken /\ outcome[r].status = 400
        /\ pc[Other(r)] = "done" /\ token[Other(r)] # NoToken
        /\ outcome[Other(r)].status = 500

(* C3 *)

\* C3: a request whose upload is invalid (declared type not image/*, or more
\* than 7 MiB) is rejected with a 400 and no model was called for it.
C3_InvalidImageRejectedBeforeModels ==
    \A r \in Requests :
        (pc[r] = "done" /\ InvalidImage(req[r].image)) =>
            /\ outcome[r].status = 400
            /\ calls[r] = <<>>

(* C4 *)

\* C4: a request whose api_key, or whose prompt, is empty or whitespace-only is
\* rejected with a 400 before any provider client is constructed: no client is
\* built or bound and no model is called.
C4_BlankRejectedBeforeClient ==
    \A r \in Requests :
        (AllBlank(req[r].api_key) \/ AllBlank(req[r].prompt)) =>
            /\ built[r] = 0
            /\ client[r] = NoClient
            /\ token[r] = NoToken
            /\ ctx[r] = NoClient
            /\ calls[r] = <<>>
            /\ pc[r] \in {"validate", "done"}
            /\ pc[r] = "done" => outcome[r].status = 400

\* a whitespace-only credential was rejected while the other request, with a
\* credential, built its client
C4_Witness ==
    \E r \in Requests :
        /\ req[r].api_key # <<>> /\ AllBlank(req[r].api_key)
        /\ pc[r] = "done" /\ outcome[r].status = 400
        /\ built[Other(r)] = 1

(* C5 *)

\* C5: refine_user_prompt never returns an empty string for a non-empty
\* user_prompt, whatever the text model does: it returns a non-empty string
\* and raises no error.
C5_RefineNeverEmpty ==
    (fn_out.done /\ fn_in.fn = "refine_user_prompt" /\ fn_in.user_prompt # <<>>) =>
        /\ ~fn_out.raised
        /\ fn_out.val # <<>>

(* C6 *)

\* the 400s of the handler, each with the condition of the request it stands for
ClientErrorCause(r) ==
    \/ outcome[r].detail = "api_key is required" /\ AllBlank(req[r].api_key)
    \/ outcome[r].detail = "prompt is required" /\ AllBlank(req[r].prompt)
    \/ /\ outcome[r].detail = "Invalid api_key provided"
       /\ built[r] = 1 /\ client[r] = NoClient
    \/ /\ outcome[r].detail = "image must be of type image/*"
       /\ req[r].image.present
       /\ (req[r].image.ctype = None \/ Len(req[r].image.ctype) = 0
           \/ req[r].image.ctype[1] # "image/")
    \/ /\ outcome[r].detail = "image file is empty"
       /\ req[r].image.present /\ req[r].image.size = 0
    \/ /\ outcome[r].detail = "image too large (>7MB)"
       /\ req[r].image.present /\ req[r].image.size > 7 * 1024 * 1024

\* C6: a request ends in exactly one of: a success {text, images}; a 400, only
\* for a blank credential, a blank prompt, a failed client construction, a
\* non-image type, an empty upload or an oversized upload; a 500 for any other
\* failure.  An exception of the Refiner or the Generator is a 500.
C6_OutcomeTaxonomy ==
    \A r \in Requests :
        /\ pc[r] = "done" <=> outcome[r] # Pending
        /\ pc[r] = "done" =>
            /\ outcome[r].status \in {200, 400, 500}
            /\ outcome[r].status = 200 =>
                  /\ outcome[r].body = gen_result[r]
                  /\ raised[r] = NoExc
                  /\ calls[r] # <<>>
                  /\ calls[r][Len(calls[r])].kind = "image"
                  /\ ~calls[r][Len(calls[r])].fails
            /\ outcome[r].status = 400 => ClientErrorCause(r)
            /\ outcome[r].status = 500 => raised[r].kind = "error"
            /\ (CallRaised(r, "text_plain") \/ CallRaised(r, "image")) =>
                  outcome[r].status = 500

\* one request ended with a 500 after both text-model calls raised, the other
\* with a 500 after the image model raised
C6_Witness ==
    \E r \in Requests :
        /\ pc[r] = "done" /\ outcome[r].status = 500 /\ CallRaised(r, "text_plain")
        /\ pc[Other(r)] = "done" /\ outcome[Other(r)].status = 500
        /\ CallRaised(Other(r), "image")

(* C7 *)

\* C7: for a non-empty refined text (as refine returns it: without surrounding
\* whitespace) and a style key present in the style map with a template,
\* build_prompt returns a string that contains the refined text.
C7_MergeContainsRefined ==
    (/\ fn_out.done /\ fn_in.fn = "build_prompt"
     /\ fn_in.user_prompt # <<>>
     /\ IsTrimOf(fn_in.user_prompt, fn_in.user_prompt)
     /\ fn_in.style_key \in DOMAIN STYLE_MAP
     /\ STYLE_MAP[fn_in.style_key].kind = "dict"
     /\ Truthy(DictGet(STYLE_MAP[fn_in.style_key], "template")))
    => Contains(fn_out.val, fn_in.user_prompt)

(* C8 *)

IsLookupKeyOf(k, style_key) ==
    IsTrimOf(k, IF style_key = None \/ style_key = <<>> THEN <<"none">> ELSE style_key)

C9_BoundedCallSequence ==
    \A r \in Requests :
        LET n == Len(calls[r]) IN
        /\ n <= 3
        /\ \A i \in 1..n :
              /\ calls[r][i].kind = "text_thinking" <=> i = 1
              /\ calls[r][i].kind = "text_plain" => i = 2 /\ calls[r][1].fails
              /\ calls[r][i].kind = "image" =>
                    /\ i = n /\ i >= 2
                    /\ ~calls[r][i - 1].fails
                    /\ refined[r] # None
        /\ (pc[r] = "done" /\ n >= 2 /\ calls[r][1].fails /\ ~calls[r][2].fails) =>
              /\ outcome[r].status = 500 => n = 3 /\ calls[r][3].fails
              /\ outcome[r].status # 400 => n = 3 /\ calls[r][3].kind = "image"
              /\ outcome[r].status = 400 => req[r].image.present

\* a request whose reasoning-mode call failed and whose retry succeeded ended
\* with a success after one image-model call
C9_Witness ==
    \E r \in Requests :
        /\ pc[r] = "done" /\ outcome[r].status = 200
        /\ Len(calls[r]) = 3
        /\ calls[r][1].fails /\ ~calls[r][2].fails
        /\ calls[r][2].kind = "text_plain" /\ calls[r][3].kind = "image"

(* C10 *)

\* C10: style resolution raises for no style key and no style-map content: for
\* a key not in the map, or in it with falsy content (null or an empty entry),
\* the label is the key, the template is empty and the request goes on to the
\* Refiner.
C10_AbsentStyleIsNoOp ==
    \A r \in Requests :
        LET key == StyleKey(req[r].style) IN
        (/\ style_ctx[r] # NoStyle
         /\ key \notin DOMAIN STYLE_MAP \/ ~TruthyEntry(STYLE_MAP[key]))
        => /\ style_ctx[r].ok
           /\ style_ctx[r].label = key
           /\ style_ctx[r].desc = <<>>
           /\ pc[r] \in {"finally", "done"} => calls[r] # <<>>

=============================================================================
